---- MODULE Spec2Model ----
(***************************************************************************)
(* A model of favourites_store.py: the Site entity collections with the    *)
(* mark_watcher / mark_favourite merge rules, the two ranking indices, and *)
(* the SoFurry notification paginator (_get_notifications).                *)
(*                                                                         *)
(* Spec          : one Site, driven by mark_watcher / mark_favourite calls *)
(* PaginatorSpec : one run of SofurrySite._get_notifications               *)
(* DriverSpec    : the __main__ loop over the sites of a store             *)
(***************************************************************************)
EXTENDS Integers, Sequences, FiniteSets, TLC

(* ------------------------------ bounds --------------------------------- *)
MaxDate == 1
MaxCalls == 3
MaxRows == 2
MaxTotal == 2
MaxEvents == 2

(* Python's None, for the optional dates. *)
None == 0

(* `while page < 100` *)
PageCeiling == 100

(* The ids a notification can carry: two users and two submissions. *)
UserIds == {1, 2}
SubmissionIds == {1, 2}
Dates == 1..MaxDate
OptDates == Dates \cup {None}
Names == {"Ann", "Bea"}
Titles == {"Dawn", "Dusk"}

VARIABLES
    users,          \* Site.users: insertion-ordered dict user_id -> User
    submissions,    \* Site.submissions: insertion-ordered dict submission_id -> Submission
    favourites,     \* Site.favourites: set of Favourite objects
    lastCall,       \* history: operation, ids and date of the most recent mark_* call
    observed,       \* history: how often mark_favourite saw each (user_id, submission_id)
    watched,        \* history: the user_ids mark_watcher was called for
    calls,          \* history: number of mark_* calls made
    pc,             \* paginator: "idle", "loop", "done" (returned) or "raised"
    page,           \* paginator: local `page`
    notifications,  \* paginator: local `notifications`
    result,         \* paginator: the returned list
    fetched,        \* history: page numbers requested, in request order
    lastSummary,    \* history: the summary region of the last response
    tooMany,        \* history: "Too many pages" was printed
    pageSize,       \* environment: rows the site serves per page
    sites,          \* driver: store.sites.values(), in iteration order
    dpc,            \* driver: "idle", "prompt", "update" or "finished"
    cur,            \* driver: position of the loop in store.sites.values()
    saved,          \* driver: the data save_to_json wrote last
    outcome,        \* history: per site "none", "skipped", "ok" or "failed"
    attempts,       \* history: per site, calls of update_favourites_and_watchers
    applied,        \* history: the raw events the running or last update applied
    preSite         \* history: the updated Site as it was when that update began

siteVars == <<users, submissions, favourites, lastCall, observed, watched, calls>>
pagVars == <<pc, page, notifications, result, fetched, lastSummary, tooMany, pageSize>>
drvVars == <<sites, dpc, cur, saved, outcome, attempts, applied, preSite>>
vars == <<users, submissions, favourites, lastCall, observed, watched, calls,
          pc, page, notifications, result, fetched, lastSummary, tooMany, pageSize,
          sites, dpc, cur, saved, outcome, attempts, applied, preSite>>

(* ------------------- Python dict, insertion ordered -------------------- *)
(* A dict is the sequence of its [key, value] entries in insertion order.  *)
DictKeys(d) == {d[i].key : i \in DOMAIN d}

DictHas(d, k) == k \in DictKeys(d)

DictGet(d, k) == d[CHOOSE i \in DOMAIN d : d[i].key = k].value

DictSetAppendAlways(d, k, v) == Append(d, [key |-> k, value |-> v])

(* d[k] = v: a new key goes last, an existing key keeps its position. *)
DictSet(d, k, v) ==
    IF DictHas(d, k)
    THEN [i \in DOMAIN d |-> IF d[i].key = k THEN [key |-> k, value |-> v] ELSE d[i]]
    ELSE Append(d, [key |-> k, value |-> v])

(* d.values(), in iteration order *)
DictValues(d) == [i \in DOMAIN d |-> d[i].value]

(* ------------------------------ entities ------------------------------- *)
User(user_id, name, is_watcher) ==
    [user_id |-> user_id, name |-> name, is_watcher |-> is_watcher, watch_date |-> None]

Submission(submission_id, title) ==
    [submission_id |-> submission_id, title |-> title, upload_date |-> None]

Favourite(user_id, submission_id) ==
    [user_id |-> user_id, submission_id |-> submission_id, fav_date |-> None]

FavEqWithDate(a, b) == a = b

(* Favourite.__eq__ (and __hash__): the (user_id, submission_id) pair only *)
FavEq(a, b) == a.user_id = b.user_id /\ a.submission_id = b.submission_id

(* `fav in self.favourites` *)
FavIn(fav, favs) == \E f \in favs : FavEq(f, fav)

SetRemoveNothing(favs, fav) == favs

(* set.remove(fav): drops the element equal to fav *)
SetRemove(favs, fav) == {f \in favs : ~FavEq(f, fav)}

(* set.add(fav): an equal element already present is kept, fav is dropped *)
SetAdd(favs, fav) == IF FavIn(fav, favs) THEN favs ELSE favs \cup {fav}

(* ----------------------------- Site state ------------------------------ *)
NoCall == [op |-> "none", user_id |-> 0, submission_id |-> 0, date |-> None]

SiteInit ==
    /\ lastCall = NoCall
    /\ users = <<>>
    /\ submissions = <<>>
    /\ favourites = {}
    /\ observed = [p \in UserIds \X SubmissionIds |-> 0]
    /\ watched = {}
    /\ calls = 0

PagIdle ==
    /\ pc = "idle"
    /\ page = 1
    /\ notifications = <<>>
    /\ result = <<>>
    /\ fetched = <<>>
    /\ lastSummary = [kind |-> "unfetched", lo |-> 0, hi |-> 0, total |-> 0]
    /\ tooMany = FALSE
    /\ pageSize = 0

DrvIdle ==
    /\ sites = <<>>
    /\ dpc = "idle"
    /\ cur = 0
    /\ saved = <<>>
    /\ outcome = <<>>
    /\ attempts = <<>>
    /\ applied = <<>>
    /\ preSite = [name |-> "", users |-> <<>>, submissions |-> <<>>, favourites |-> {}]

Init == SiteInit /\ PagIdle /\ DrvIdle

(* ----------------------------- mark_watcher ---------------------------- *)
WatcherUsersKeepDate(us, user_id, user_name, watch_date) ==
    IF ~DictHas(us, user_id)
    THEN DictSet(us, user_id, [User(user_id, user_name, TRUE) EXCEPT !.watch_date = watch_date])
    ELSE DictSet(us, user_id,
                 [DictGet(us, user_id) EXCEPT
                     !.is_watcher = TRUE,
                     !.watch_date = IF watch_date = None THEN @ ELSE watch_date])

WatcherUsersRename(us, user_id, user_name, watch_date) ==
    DictSet(us, user_id, [User(user_id, user_name, TRUE) EXCEPT !.watch_date = watch_date])

WatcherUsers(us, user_id, user_name, watch_date) ==
    IF ~DictHas(us, user_id)
    THEN DictSet(us, user_id, [User(user_id, user_name, TRUE) EXCEPT !.watch_date = watch_date])
    ELSE IF DictGet(us, user_id).is_watcher
         THEN DictSet(us, user_id, [DictGet(us, user_id) EXCEPT !.watch_date = watch_date])
         ELSE DictSet(us, user_id, [DictGet(us, user_id) EXCEPT !.is_watcher = TRUE,
                                                                !.watch_date = watch_date])

mark_watcher(user_id, user_name, watch_date) ==
    /\ calls < MaxCalls
    /\ users' = WatcherUsers(users, user_id, user_name, watch_date)
    /\ lastCall' = [op |-> "mark_watcher", user_id |-> user_id, submission_id |-> 0,
                    date |-> watch_date]
    /\ watched' = watched \cup {user_id}
    /\ calls' = calls + 1
    /\ UNCHANGED <<submissions, favourites, observed>>
    /\ UNCHANGED <<pagVars, drvVars>>

(* ---------------------------- mark_favourite --------------------------- *)
FavouriteUsersOverwrite(us, user_id, user_name) ==
    DictSet(us, user_id, User(user_id, user_name, FALSE))

FavouriteUsers(us, user_id, user_name) ==
    IF ~DictHas(us, user_id)
    THEN DictSet(us, user_id, User(user_id, user_name, FALSE))
    ELSE us

FavouriteSubmissionsSkip(subs, submission_id, submission_name) == subs

FavouriteSubmissionsOverwrite(subs, submission_id, submission_name) ==
    DictSet(subs, submission_id, Submission(submission_id, submission_name))

FavouriteSubmissions(subs, submission_id, submission_name) ==
    IF ~DictHas(subs, submission_id)
    THEN DictSet(subs, submission_id, Submission(submission_id, submission_name))
    ELSE subs

FavouriteSetAppend(favs, fav) == favs \cup {fav}

FavouriteSet(favs, fav) ==
    IF FavIn(fav, favs)
    THEN SetAdd(SetRemove(favs, fav), fav)
    ELSE SetAdd(favs, fav)

mark_favourite(user_id, user_name, submission_id, submission_name, fav_date) ==
    /\ calls < MaxCalls
    /\ users' = FavouriteUsers(users, user_id, user_name)
    /\ submissions' = FavouriteSubmissions(submissions, submission_id, submission_name)
    /\ favourites' = FavouriteSet(favourites,
                                  [Favourite(user_id, submission_id) EXCEPT !.fav_date = fav_date])
    /\ lastCall' = [op |-> "mark_favourite", user_id |-> user_id,
                    submission_id |-> submission_id, date |-> fav_date]
    /\ observed' = [observed EXCEPT ![<<user_id, submission_id>>] = @ + 1]
    /\ calls' = calls + 1
    /\ UNCHANGED watched
    /\ UNCHANGED <<pagVars, drvVars>>

Next ==
    \/ \E u \in UserIds, n \in Names, d \in OptDates : mark_watcher(u, n, d)
    \/ \E u \in UserIds, n \in Names, s \in SubmissionIds, t \in Titles, d \in OptDates :
          mark_favourite(u, n, s, t, d)

Spec == Init /\ [][Next]_vars

(* ------------------------------- ranking ------------------------------- *)
RECURSIVE InsertUnstable(_, _)
InsertUnstable(sorted, e) ==
    IF sorted = <<>> THEN <<e>>
    ELSE IF Head(sorted).fav_count > e.fav_count
         THEN <<Head(sorted)>> \o InsertUnstable(Tail(sorted), e)
         ELSE <<e>> \o sorted

(* e goes after every entry whose key is not smaller: equal keys keep their order *)
RECURSIVE InsertDesc(_, _)
InsertDesc(sorted, e) ==
    IF sorted = <<>> THEN <<e>>
    ELSE IF Head(sorted).fav_count >= e.fav_count
         THEN <<Head(sorted)>> \o InsertDesc(Tail(sorted), e)
         ELSE <<e>> \o sorted

RECURSIVE SortedUnstable(_)
SortedUnstable(index) ==
    IF index = <<>> THEN <<>>
    ELSE InsertUnstable(SortedUnstable(SubSeq(index, 1, Len(index) - 1)), index[Len(index)])

(* sorted(index, key=lambda x: x["fav_count"], reverse=True): a stable sort, *)
(* and reverse=True keeps it stable.                                         *)
RECURSIVE SortedByFavCountDesc(_)
SortedByFavCountDesc(index) ==
    IF index = <<>> THEN <<>>
    ELSE InsertDesc(SortedByFavCountDesc(SubSeq(index, 1, Len(index) - 1)), index[Len(index)])

(* The "favourites" list of an entry is built by iterating the set; only its *)
(* members and its length are modelled.                                      *)
UserIndexUnsorted(us, favs) ==
    [i \in DOMAIN us |->
        LET user == DictValues(us)[i]
            favs_of == {fav \in favs : fav.user_id = user.user_id}
        IN  [user |-> user, favourites |-> favs_of, fav_count |-> Cardinality(favs_of)]]

SubmissionIndexUnsorted(subs, favs) ==
    [i \in DOMAIN subs |->
        LET submission == DictValues(subs)[i]
            favs_of == {fav \in favs : fav.submission_id = submission.submission_id}
        IN  [submission |-> submission, favourites |-> favs_of,
             fav_count |-> Cardinality(favs_of)]]

get_user_favourites_index(us, favs) == SortedByFavCountDesc(UserIndexUnsorted(us, favs))

get_submission_favourites_index(subs, favs) ==
    SortedByFavCountDesc(SubmissionIndexUnsorted(subs, favs))

UserIndex == get_user_favourites_index(users, favourites)
SubmissionIndex == get_submission_favourites_index(submissions, favourites)

(* ======================= to_json / from_json ========================== *)
(* A date field of the interchange data: null, or the ISO-8601 text of a  *)
(* datetime.                                                               *)
JsonNull == [json |-> "null", iso |-> None]

(* datetime.isoformat() *)
isoformat(date) == [json |-> "string", iso |-> date]

(* dateutil.parser.parse of an ISO-8601 text *)
parse(text) == text.iso

(* truth value of `self.watch_date` (None or a datetime) *)
DateIsSet(date) == date # None

(* truth value of `data.get("watch_date")` (None or a non-empty text) *)
TextIsSet(text) == text.json = "string"

UserToJson(user) ==
    [user_id |-> user.user_id, name |-> user.name, is_watcher |-> user.is_watcher,
     watch_date |-> IF DateIsSet(user.watch_date) THEN isoformat(user.watch_date) ELSE JsonNull]

UserFromJsonNoDate(data) == User(data.user_id, data.name, data.is_watcher)

UserFromJson(data) ==
    LET user == User(data.user_id, data.name, data.is_watcher)
    IN  IF TextIsSet(data.watch_date)
        THEN [user EXCEPT !.watch_date = parse(data.watch_date)]
        ELSE user

SubmissionToJson(sub) ==
    [submission_id |-> sub.submission_id, title |-> sub.title,
     upload_date |-> IF DateIsSet(sub.upload_date) THEN isoformat(sub.upload_date) ELSE JsonNull]

SubmissionFromJson(data) ==
    LET sub == Submission(data.submission_id, data.title)
    IN  IF TextIsSet(data.upload_date)
        THEN [sub EXCEPT !.upload_date = parse(data.upload_date)]
        ELSE sub

FavouriteToJson(fav) ==
    [user_id |-> fav.user_id, submission_id |-> fav.submission_id,
     fav_date |-> IF DateIsSet(fav.fav_date) THEN isoformat(fav.fav_date) ELSE JsonNull]

FavouriteFromJson(data) ==
    LET fav == Favourite(data.user_id, data.submission_id)
    IN  IF TextIsSet(data.fav_date)
        THEN [fav EXCEPT !.fav_date = parse(data.fav_date)]
        ELSE fav

(* Site.__init__ *)
NewSite(name) == [name |-> name, users |-> <<>>, submissions |-> <<>>, favourites |-> {}]

(* Site.to_json. The "favourites" list follows the set's iteration order,  *)
(* which is arbitrary: it is kept as the set of its entries.               *)
SiteToJson(site) ==
    [name |-> site.name,
     users |-> [i \in DOMAIN site.users |-> UserToJson(DictValues(site.users)[i])],
     submissions |->
         [i \in DOMAIN site.submissions |-> SubmissionToJson(DictValues(site.submissions)[i])],
     favourites |-> {FavouriteToJson(fav) : fav \in site.favourites}]

RECURSIVE UsersFromJson(_)
UsersFromJson(list) ==
    IF list = <<>> THEN <<>>
    ELSE LET user_data == list[Len(list)]
         IN  DictSet(UsersFromJson(SubSeq(list, 1, Len(list) - 1)),
                     user_data.user_id, UserFromJson(user_data))

RECURSIVE SubmissionsFromJson(_)
SubmissionsFromJson(list) ==
    IF list = <<>> THEN <<>>
    ELSE LET sub_data == list[Len(list)]
         IN  DictSet(SubmissionsFromJson(SubSeq(list, 1, Len(list) - 1)),
                     sub_data.submission_id, SubmissionFromJson(sub_data))

RECURSIVE FavouritesFromJson(_)
FavouritesFromJson(entries) ==
    IF entries = {} THEN {}
    ELSE LET fav_data == CHOOSE e \in entries : TRUE
         IN  SetAdd(FavouritesFromJson(entries \ {fav_data}), FavouriteFromJson(fav_data))

(* the keys of site_cls_lookup in load_from_json *)
SiteNames == {"furaffinity", "weasyl", "sofurry", "inkbunny"}

(* site_cls_lookup.get(site_name, Site): "Site" is the abstract base class *)
SiteClassLookup(site_name) == IF site_name \in SiteNames THEN site_name ELSE "Site"

(* Site is an ABC with abstract methods: cls(...) raises TypeError for it *)
CanInstantiate(cls) == cls # "Site"

(* cls.from_json(data) *)
SiteFromJson(cls, data) ==
    IF ~CanInstantiate(cls)
    THEN [raised |-> TRUE, site |-> NewSite(data.name)]
    ELSE [raised |-> FALSE,
          site |-> [name |-> data.name,
                    users |-> UsersFromJson(data.users),
                    submissions |-> SubmissionsFromJson(data.submissions),
                    favourites |-> FavouritesFromJson(data.favourites)]]

(* ================== SofurrySite._get_notifications ==================== *)
(* The summary region of a response: absent (select_one gives None), text  *)
(* of another form, or "Displaying lo-hi of total result(s)."              *)
NoSummary == [kind |-> "none", lo |-> 0, hi |-> 0, total |-> 0]
OtherText == [kind |-> "other", lo |-> 0, hi |-> 0, total |-> 0]
NoResponse == [kind |-> "failed", lo |-> 0, hi |-> 0, total |-> 0]
Displaying(lo, hi, total) == [kind |-> "displaying", lo |-> lo, hi |-> hi, total |-> total]

Summaries ==
    {NoSummary, OtherText}
      \cup {Displaying(lo, hi, total) : lo \in 1..MaxTotal, hi \in 1..MaxTotal, total \in 1..MaxTotal}

(* the rows `#yw0 .items tbody tr` of page p: row i of page p is <<p, i>> *)
PageRows(p, size) == [i \in 1..size |-> <<p, i>>]

SummaryMissingOrOther(summary) == summary.kind # "displaying"

(* `summary is None` *)
SummaryIsNone(summary) == summary.kind = "none"

(* re.search(r"Displaying \d+-(\d+) of \1 result\(s\).", summary.text): the  *)
(* back-reference makes the total repeat the upper end of the range.        *)
RegexMatches(summary) == summary.kind = "displaying" /\ summary.hi = summary.total

LoopCondInclusive(p) == p <= PageCeiling

(* `while page < 100` *)
LoopCond(p) == p < PageCeiling

AccumulateReplace(notifs, new_favs) == new_favs

(* `notifications += new_favs` *)
Accumulate(notifs, new_favs) == notifs \o new_favs

ReturnOnNoneKeepsRows(notifs) == notifs

(* `return []` on a missing summary *)
ReturnOnNone(notifs) == <<>>

PagInit ==
    /\ SiteInit
    /\ DrvIdle
    /\ pc = "loop"
    /\ page = 1
    /\ notifications = <<>>
    /\ result = <<>>
    /\ fetched = <<>>
    /\ lastSummary = [kind |-> "unfetched", lo |-> 0, hi |-> 0, total |-> 0]
    /\ tooMany = FALSE
    /\ pageSize \in 0..MaxRows

(* one pass of the loop body, the site answering with `summary` *)
FetchPage(summary) ==
    /\ pc = "loop"
    /\ LoopCond(page)
    /\ fetched' = Append(fetched, page)
    /\ page' = page + 1
    /\ lastSummary' = summary
    /\ IF SummaryIsNone(summary)
       THEN /\ result' = ReturnOnNone(notifications)
            /\ pc' = "done"
            /\ UNCHANGED notifications
       ELSE /\ notifications' = Accumulate(notifications, PageRows(page, pageSize))
            /\ IF RegexMatches(summary)
               THEN result' = notifications' /\ pc' = "done"
               ELSE UNCHANGED <<result, pc>>
    /\ UNCHANGED <<tooMany, pageSize>>
    /\ UNCHANGED <<siteVars, drvVars>>

FetchRaisesRetry ==
    /\ pc = "loop"
    /\ LoopCond(page)
    /\ fetched' = Append(fetched, page)
    /\ lastSummary' = NoResponse
    /\ UNCHANGED <<pc, page, notifications, result, tooMany, pageSize>>
    /\ UNCHANGED <<siteVars, drvVars>>

(* requests.get (or the parse) raises: the exception leaves the method *)
FetchRaises ==
    /\ pc = "loop"
    /\ LoopCond(page)
    /\ fetched' = Append(fetched, page)
    /\ page' = page + 1
    /\ lastSummary' = NoResponse
    /\ pc' = "raised"
    /\ UNCHANGED <<notifications, result, tooMany, pageSize>>
    /\ UNCHANGED <<siteVars, drvVars>>

(* the loop condition fails: "Too many pages ..." and return notifications *)
LoopExit ==
    /\ pc = "loop"
    /\ ~LoopCond(page)
    /\ tooMany' = TRUE
    /\ result' = notifications
    /\ pc' = "done"
    /\ UNCHANGED <<page, notifications, fetched, lastSummary, pageSize>>
    /\ UNCHANGED <<siteVars, drvVars>>

PagNext ==
    \/ \E summary \in Summaries : FetchPage(summary)
    \/ FetchRaises
    \/ LoopExit

PaginatorSpec == PagInit /\ [][PagNext]_vars

(* ========================= the __main__ loop ========================== *)
(* The sites of the loaded store, in the order of store.sites.values().   *)
StoreSiteNames == <<"furaffinity", "sofurry">>

(* A raw event as an adapter hands it to mark_watcher / mark_favourite.    *)
(* The adapters always pass a date; a site reports one name per user and   *)
(* one title per submission.                                               *)
FeedDate == CHOOSE d \in Dates : TRUE
FeedName(u) == IF u = 1 THEN "Ann" ELSE "Bea"
FeedTitle(s) == IF s = 1 THEN "Dawn" ELSE "Dusk"

FeedEvents ==
    {[kind |-> "watch", user_id |-> u, submission_id |-> 0] : u \in UserIds}
      \cup {[kind |-> "favourite", user_id |-> u, submission_id |-> s] :
               u \in UserIds, s \in SubmissionIds}

(* the mark_watcher / mark_favourite call an adapter makes for one event *)
ApplyFeedEvent(site, e) ==
    IF e.kind = "watch"
    THEN [site EXCEPT !.users = WatcherUsers(@, e.user_id, FeedName(e.user_id), FeedDate)]
    ELSE [site EXCEPT
            !.users = FavouriteUsers(@, e.user_id, FeedName(e.user_id)),
            !.submissions = FavouriteSubmissions(@, e.submission_id, FeedTitle(e.submission_id)),
            !.favourites = FavouriteSet(@, [Favourite(e.user_id, e.submission_id)
                                               EXCEPT !.fav_date = FeedDate])]

(* the "sites" list save_to_json dumps *)
StoreToJson(ss) == [i \in DOMAIN ss |-> SiteToJson(ss[i])]

(* each Site object owns its users, submissions and favourites *)
SetSite(ss, i, site) == [ss EXCEPT ![i] = site]

(* after load_from_json and print_default_stats, before the first pass *)
DrvInit ==
    /\ SiteInit
    /\ PagIdle
    /\ sites = [i \in DOMAIN StoreSiteNames |-> NewSite(StoreSiteNames[i])]
    /\ dpc = "prompt"
    /\ cur = 1
    /\ saved = <<>>
    /\ outcome = [i \in DOMAIN StoreSiteNames |-> "none"]
    /\ attempts = [i \in DOMAIN StoreSiteNames |-> 0]
    /\ applied = <<>>
    /\ preSite = [name |-> "", users |-> <<>>, submissions |-> <<>>, favourites |-> {}]

(* the end of one pass of `for fav_site in store.sites.values()`: *)
(* store.save_to_json(), then the next site                        *)
SaveAndAdvance(ss) ==
    /\ saved' = StoreToJson(ss)
    /\ cur' = cur + 1
    /\ dpc' = IF cur = Len(sites) THEN "finished" ELSE "prompt"

(* get_user_input_and_update with an empty cookie: "Skipping ... update" *)
PromptAndSkip ==
    /\ dpc = "prompt"
    /\ outcome' = [outcome EXCEPT ![cur] = "skipped"]
    /\ SaveAndAdvance(sites)
    /\ UNCHANGED <<sites, attempts, applied, preSite>>
    /\ UNCHANGED <<siteVars, pagVars>>

(* get_user_input_and_update with every cookie given: the update starts *)
PromptAndStart ==
    /\ dpc = "prompt"
    /\ dpc' = "update"
    /\ attempts' = [attempts EXCEPT ![cur] = @ + 1]
    /\ applied' = <<>>
    /\ preSite' = sites[cur]
    /\ UNCHANGED <<sites, cur, saved, outcome>>
    /\ UNCHANGED <<siteVars, pagVars>>

(* update_favourites_and_watchers handles its next raw event *)
ApplyEvent(e) ==
    /\ dpc = "update"
    /\ Len(applied) < MaxEvents
    /\ sites' = SetSite(sites, cur, ApplyFeedEvent(sites[cur], e))
    /\ applied' = Append(applied, e)
    /\ UNCHANGED <<dpc, cur, saved, outcome, attempts, preSite>>
    /\ UNCHANGED <<siteVars, pagVars>>

(* update_favourites_and_watchers returns *)
UpdateReturns ==
    /\ dpc = "update"
    /\ outcome' = [outcome EXCEPT ![cur] = "ok"]
    /\ SaveAndAdvance(sites)
    /\ UNCHANGED <<sites, attempts, applied, preSite>>
    /\ UNCHANGED <<siteVars, pagVars>>

UpdateRaisesAborts ==
    /\ dpc = "update"
    /\ outcome' = [outcome EXCEPT ![cur] = "failed"]
    /\ dpc' = "finished"
    /\ UNCHANGED <<sites, cur, saved, attempts, applied, preSite>>
    /\ UNCHANGED <<siteVars, pagVars>>

UpdateRaisesRollsBack ==
    /\ dpc = "update"
    /\ outcome' = [outcome EXCEPT ![cur] = "failed"]
    /\ sites' = SetSite(sites, cur, preSite)
    /\ SaveAndAdvance(sites')
    /\ UNCHANGED <<attempts, applied, preSite>>
    /\ UNCHANGED <<siteVars, pagVars>>

(* update_favourites_and_watchers raises while it fetches or reads its      *)
(* next raw event: `except Exception` prints and the pass goes on           *)
UpdateRaises ==
    /\ dpc = "update"
    /\ outcome' = [outcome EXCEPT ![cur] = "failed"]
    /\ SaveAndAdvance(sites)
    /\ UNCHANGED <<sites, attempts, applied, preSite>>
    /\ UNCHANGED <<siteVars, pagVars>>

DrvNext ==
    \/ PromptAndSkip
    \/ PromptAndStart
    \/ \E e \in FeedEvents : ApplyEvent(e)
    \/ UpdateReturns
    \/ UpdateRaises

DriverSpec == DrvInit /\ [][DrvNext]_vars

(* =============================== claims ================================ *)
HasFav(u, s) == \E f \in favourites : f.user_id = u /\ f.submission_id = s
PosOfUser(u) == CHOOSE i \in DOMAIN users : users[i].value.user_id = u
PosOfSubmission(s) == CHOOSE i \in DOMAIN submissions : submissions[i].value.submission_id = s

(* C1: after any sequence of mark_watcher / mark_favourite calls on an empty  *)
(* Site there is at most one Favourite per (user_id, submission_id) pair, at  *)
(* most one User per user_id and at most one Submission per submission_id.    *)
C1_IdentityUnique ==
    /\ \A f, g \in favourites :
          (f.user_id = g.user_id /\ f.submission_id = g.submission_id) => f = g
    /\ \A i, j \in DOMAIN users :
          (users[i].value.user_id = users[j].value.user_id \/ users[i].key = users[j].key)
            => i = j
    /\ \A i, j \in DOMAIN submissions :
          (submissions[i].value.submission_id = submissions[j].value.submission_id
             \/ submissions[i].key = submissions[j].key) => i = j

(* a pair seen twice by a user who was then also marked as a watcher *)
C1_Witness ==
    /\ Cardinality(favourites) = 1 /\ Len(users) = 1 /\ Len(submissions) = 1
    /\ lastCall.op = "mark_watcher"
    /\ \E s \in SubmissionIds : observed[<<lastCall.user_id, s>>] >= 2

(* C2: when a Favourite for (user_id, submission_id) exists, mark_favourite   *)
(* for that pair leaves the number of Favourites unchanged and the single     *)
(* stored Favourite of the pair then carries the fav_date of this call.       *)
C2_RepeatReplacesDate ==
    [][(/\ calls' = calls + 1
        /\ lastCall'.op = "mark_favourite"
        /\ HasFav(lastCall'.user_id, lastCall'.submission_id))
          => /\ Cardinality(favourites') = Cardinality(favourites)
             /\ \E f \in favourites' : /\ f.user_id = lastCall'.user_id
                                       /\ f.submission_id = lastCall'.submission_id
             /\ \A f \in favourites' :
                   (f.user_id = lastCall'.user_id /\ f.submission_id = lastCall'.submission_id)
                     => f.fav_date = lastCall'.date]_vars

(* the last two calls were for one pair, after a first call for another pair *)
C2_Witness ==
    /\ lastCall.op = "mark_favourite"
    /\ observed[<<lastCall.user_id, lastCall.submission_id>>] = 2
    /\ calls = 3
    /\ Cardinality(favourites) = 2
    /\ \E f \in favourites : f.user_id = lastCall.user_id
                               /\ f.submission_id = lastCall.submission_id
                               /\ f.fav_date = lastCall.date

(* C3: the fav_count an index reports for a user is the number of distinct    *)
(* submissions that user was observed favouriting, and for a submission the   *)
(* number of distinct users observed favouriting it, however often an event   *)
(* was observed.                                                              *)
C3_CountsDistinctPairs ==
    LET ui == UserIndex
        si == SubmissionIndex
    IN  /\ \A i \in DOMAIN ui :
              ui[i].fav_count =
                 Cardinality({s \in SubmissionIds : observed[<<ui[i].user.user_id, s>>] > 0})
        /\ \A i \in DOMAIN si :
              si[i].fav_count =
                 Cardinality({u \in UserIds : observed[<<u, si[i].submission.submission_id>>] > 0})

(* one event observed three times, counted once *)
C3_Witness ==
    /\ \E p \in UserIds \X SubmissionIds : observed[p] = 3
    /\ Len(UserIndex) = 1 /\ UserIndex[1].fav_count = 1
    /\ Len(SubmissionIndex) = 1 /\ SubmissionIndex[1].fav_count = 1

(* C4: every Favourite's user_id is a key of users and its submission_id a    *)
(* key of submissions.                                                        *)
C4_FavouriteRefsExist ==
    \A f \in favourites :
       /\ \E i \in DOMAIN users : users[i].key = f.user_id
       /\ \E i \in DOMAIN submissions : submissions[i].key = f.submission_id

C4_Witness ==
    /\ Cardinality(favourites) = 3
    /\ Len(users) = 2 /\ Len(submissions) = 2

(* C5: once a user's is_watcher is true it is true in every later state; a    *)
(* later mark_favourite for that user does not reset it.                      *)
C5_WatcherMonotonic ==
    [][\A i \in DOMAIN users :
          users[i].value.is_watcher
            => \E j \in DOMAIN users' :
                  /\ users'[j].value.user_id = users[i].value.user_id
                  /\ users'[j].value.is_watcher]_vars

(* the last call was a mark_favourite for a user who was a watcher already *)
C5_Witness ==
    /\ lastCall.op = "mark_favourite"
    /\ \E i \in DOMAIN users :
          users[i].value.user_id = lastCall.user_id /\ users[i].value.is_watcher

(* C6: each index has exactly one entry per User / Submission (those with no  *)
(* favourites included), is ordered by non-increasing fav_count, and entries  *)
(* with equal fav_count are in the order their entities were first inserted.  *)
C6_RankingOrder ==
    LET ui == UserIndex
        si == SubmissionIndex
    IN  /\ Len(ui) = Len(users)
        /\ \A i \in DOMAIN users : \E j \in DOMAIN ui : ui[j].user = users[i].value
        /\ Len(si) = Len(submissions)
        /\ \A i \in DOMAIN submissions :
              \E j \in DOMAIN si : si[j].submission = submissions[i].value
        /\ \A i, j \in DOMAIN ui :
              i < j => /\ ui[i].fav_count >= ui[j].fav_count
                       /\ ui[i].fav_count = ui[j].fav_count
                            => PosOfUser(ui[i].user.user_id) < PosOfUser(ui[j].user.user_id)
        /\ \A i, j \in DOMAIN si :
              i < j => /\ si[i].fav_count >= si[j].fav_count
                       /\ si[i].fav_count = si[j].fav_count
                            => PosOfSubmission(si[i].submission.submission_id)
                                 < PosOfSubmission(si[j].submission.submission_id)

(* the later-inserted user ranks first, the two submissions tie in insertion  *)
(* order with the larger id inserted first                                    *)
C6_Witness ==
    /\ Len(users) = 2 /\ Len(submissions) = 2
    /\ UserIndex[1].user = users[2].value
    /\ UserIndex[1].fav_count = 2 /\ UserIndex[2].fav_count = 0
    /\ SubmissionIndex[1].fav_count = 1 /\ SubmissionIndex[2].fav_count = 1
    /\ SubmissionIndex[1].submission.submission_id = 2
    /\ SubmissionIndex[1].submission = submissions[1].value

(* the rows of pages 1..k in page order, each row once *)
RowsOfPages(k) ==
    [i \in 1..(k * pageSize) |-> <<((i - 1) \div pageSize) + 1, ((i - 1) % pageSize) + 1>>]

PagesUpTo(k) == [i \in 1..k |-> i]

(* C7: when page k is the first page with a terminal summary (every page    *)
(* before it having a summary), pages 1..k were fetched once each in        *)
(* increasing order, nothing is fetched after k, and the rows of pages 1..k *)
(* are returned concatenated in page order.                                 *)
C7_TerminalPageStops ==
    (lastSummary.kind = "displaying" /\ lastSummary.hi = lastSummary.total)
      => /\ pc = "done"
         /\ Len(fetched) < PageCeiling
         /\ fetched = PagesUpTo(Len(fetched))
         /\ result = RowsOfPages(Len(fetched))

C7_Witness ==
    /\ pc = "done"
    /\ lastSummary = Displaying(2, 2, 2)
    /\ fetched = <<1, 2, 3>>
    /\ pageSize = 2
    /\ result = <<<<1, 1>>, <<1, 2>>, <<2, 1>>, <<2, 2>>, <<3, 1>>, <<3, 2>>>>

(* C8: when page k is the first page without a summary region the result is *)
(* empty and nothing more is fetched, for k = 1 and for k > 1 (the rows of  *)
(* pages 1..k-1 are dropped).                                               *)
C8_MissingSummaryReturnsEmpty ==
    lastSummary.kind = "none"
      => /\ pc = "done"
         /\ result = <<>>
         /\ fetched = PagesUpTo(Len(fetched))

C8_Witness ==
    /\ lastSummary.kind = "none"
    /\ pc = "done"
    /\ fetched = <<1, 2, 3>>
    /\ Len(notifications) = 4
    /\ result = <<>>

(* C9, as stated: with a non-terminal summary on every page, pages 1..100   *)
(* are fetched (100 fetches), then the accumulated rows are returned.       *)
C9_Original ==
    tooMany
      => /\ pc = "done"
         /\ fetched = PagesUpTo(PageCeiling)
         /\ result = RowsOfPages(PageCeiling)

(* C9, amended: pages 1..99 are fetched (99 fetches), no page numbered      *)
(* above 99 is ever fetched, and the rows of those 99 pages are returned    *)
(* without an error.                                                        *)
C9_CeilingStops ==
    /\ \A i \in DOMAIN fetched : fetched[i] <= PageCeiling - 1
    /\ (pc = "loop" /\ Len(fetched) = PageCeiling - 1) => page = PageCeiling
    /\ tooMany
         => /\ pc = "done"
            /\ fetched = PagesUpTo(PageCeiling - 1)
            /\ result = RowsOfPages(PageCeiling - 1)

C9_Witness ==
    /\ tooMany
    /\ pc = "done"
    /\ pageSize = 2
    /\ Len(fetched) = PageCeiling - 1
    /\ Len(result) = 2 * (PageCeiling - 1)
    /\ lastSummary.kind = "displaying"

(* C10, as stated: a summary that is present but not of the "Displaying     *)
(* A-B of N result(s)." form ends the run with an empty result.             *)
C10_Original ==
    lastSummary.kind = "other" => (pc = "done" /\ result = <<>>)

(* C10, amended: such a page is handled as a non-terminal page: its rows    *)
(* are appended and the run goes on to the next page, or, at the ceiling,   *)
(* returns everything accumulated.                                          *)
C10_UnparseableContinues ==
    lastSummary.kind = "other"
      => /\ notifications = RowsOfPages(Len(fetched))
         /\ fetched = PagesUpTo(Len(fetched))
         /\ \/ pc = "loop" /\ page = Len(fetched) + 1 /\ result = <<>>
            \/ pc = "done" /\ tooMany /\ result = notifications

C10_Witness ==
    /\ lastSummary.kind = "other"
    /\ pc = "loop"
    /\ fetched = <<1, 2>>
    /\ notifications = <<<<1, 1>>, <<2, 1>>>>

(* -------------------- frame and growth of the Site --------------------- *)
UserOf(us, u) == us[CHOOSE i \in DOMAIN us : us[i].key = u].value
KnownUser(us, u) == \E i \in DOMAIN us : us[i].key = u
KnownSubmission(subs, s) == \E i \in DOMAIN subs : subs[i].key = s
SubmissionOf(subs, s) == subs[CHOOSE i \in DOMAIN subs : subs[i].key = s].value
WatcherStep == calls' = calls + 1 /\ lastCall'.op = "mark_watcher"
FavouriteStep == calls' = calls + 1 /\ lastCall'.op = "mark_favourite"

(* C11, as stated: mark_watcher without a watch_date for a user who is a    *)
(* watcher already leaves the stored watch_date as it was.                  *)
C11_Original ==
    [][(/\ WatcherStep
        /\ lastCall'.date = None
        /\ KnownUser(users, lastCall'.user_id)
        /\ UserOf(users, lastCall'.user_id).is_watcher)
          => UserOf(users', lastCall'.user_id).watch_date
               = UserOf(users, lastCall'.user_id).watch_date]_vars

(* C11, amended: mark_watcher without a watch_date for a user who is a      *)
(* watcher already sets the stored watch_date to None, a recorded date      *)
(* included.                                                                *)
C11_NoDateOverwrites ==
    [][(/\ WatcherStep
        /\ lastCall'.date = None
        /\ KnownUser(users, lastCall'.user_id)
        /\ UserOf(users, lastCall'.user_id).is_watcher)
          => /\ KnownUser(users', lastCall'.user_id)
             /\ UserOf(users', lastCall'.user_id).watch_date = None
             /\ UserOf(users', lastCall'.user_id).is_watcher]_vars

(* only mark_watcher calls were made, all for one user, the last one without *)
(* a date                                                                    *)
C11_Witness ==
    /\ calls = 2
    /\ lastCall.op = "mark_watcher"
    /\ lastCall.date = None
    /\ submissions = <<>>
    /\ Len(users) = 1
    /\ users[1].value.is_watcher
    /\ users[1].value.watch_date = None

(* C12: mark_watcher for a user_id the Site already holds never changes     *)
(* that user's name, and leaves every other user, all submissions and all   *)
(* favourites unchanged.                                                    *)
C12_WatcherFrame ==
    [][(WatcherStep /\ KnownUser(users, lastCall'.user_id))
          => /\ Len(users') = Len(users)
             /\ \A i \in DOMAIN users :
                   /\ users'[i].key = users[i].key
                   /\ users'[i].value.user_id = users[i].value.user_id
                   /\ users'[i].value.name = users[i].value.name
                   /\ users[i].key # lastCall'.user_id => users'[i] = users[i]
             /\ submissions' = submissions
             /\ favourites' = favourites]_vars

(* the last call was a mark_watcher for a user with a favourite, so a user  *)
(* the Site held before the call; there is a second user, a submission and  *)
(* a favourite to leave alone                                               *)
C12_Witness ==
    /\ lastCall.op = "mark_watcher"
    /\ calls = 3
    /\ Len(users) = 2
    /\ Cardinality(favourites) = 1
    /\ \E s \in SubmissionIds : observed[<<lastCall.user_id, s>>] = 1

(* C13: mark_favourite with a user_id and a submission_id the Site already  *)
(* holds leaves that user's name, is_watcher and watch_date and that        *)
(* submission's title unchanged; only the Favourite of that very pair may   *)
(* change.                                                                  *)
C13_FavouriteFrame ==
    [][(/\ FavouriteStep
        /\ KnownUser(users, lastCall'.user_id)
        /\ KnownSubmission(submissions, lastCall'.submission_id))
          => /\ users' = users
             /\ submissions' = submissions
             /\ \A f \in favourites :
                   (f.user_id # lastCall'.user_id \/ f.submission_id # lastCall'.submission_id)
                     => f \in favourites'
             /\ \A f \in favourites' :
                   (f.user_id # lastCall'.user_id \/ f.submission_id # lastCall'.submission_id)
                     => f \in favourites]_vars

(* the last call paired a user and a submission that earlier calls had      *)
(* created with other partners                                              *)
C13_Witness ==
    /\ lastCall.op = "mark_favourite"
    /\ calls = 3
    /\ observed[<<lastCall.user_id, lastCall.submission_id>>] = 1
    /\ Cardinality(favourites) = 3
    /\ \E s \in SubmissionIds \ {lastCall.submission_id} : observed[<<lastCall.user_id, s>>] = 1
    /\ \E u \in UserIds \ {lastCall.user_id} : observed[<<u, lastCall.submission_id>>] = 1

(* C17: the Site only grows: every user_id, submission_id and Favourite     *)
(* pair of a state is in every later state, and a Submission keeps the      *)
(* title and upload_date it was created with.                               *)
C17_SiteOnlyGrows ==
    [][/\ \A i \in DOMAIN users : KnownUser(users', users[i].key)
       /\ \A i \in DOMAIN submissions :
             /\ KnownSubmission(submissions', submissions[i].key)
             /\ SubmissionOf(submissions', submissions[i].key).title
                  = submissions[i].value.title
             /\ SubmissionOf(submissions', submissions[i].key).upload_date
                  = submissions[i].value.upload_date
       /\ \A f \in favourites :
             \E g \in favourites' :
                g.user_id = f.user_id /\ g.submission_id = f.submission_id]_vars

(* a favourite that was seen again after other calls, with everything still *)
(* there                                                                    *)
C17_Witness ==
    /\ calls = 3
    /\ lastCall.op = "mark_favourite"
    /\ observed[<<lastCall.user_id, lastCall.submission_id>>] = 2
    /\ Len(users) = 2
    /\ Len(submissions) = 1
    /\ Cardinality(favourites) = 1

RECURSIVE SumFavCount(_)
SumFavCount(index) ==
    IF index = <<>> THEN 0 ELSE Head(index).fav_count + SumFavCount(Tail(index))

(* C18: the fav_counts of get_user_favourites_index and those of            *)
(* get_submission_favourites_index both add up to the number of Favourites  *)
(* in the Site.                                                             *)
C18_CountsAddUp ==
    /\ SumFavCount(UserIndex) = Cardinality(favourites)
    /\ SumFavCount(SubmissionIndex) = Cardinality(favourites)

C18_Witness ==
    /\ Cardinality(favourites) = 3
    /\ Len(UserIndex) = 2 /\ UserIndex[1].fav_count = 2 /\ UserIndex[2].fav_count = 1
    /\ Len(SubmissionIndex) = 2

(* C19: the user_ids, the submission_ids, the Favourite pairs and every     *)
(* user's is_watcher are the same for any two orders of the same events:    *)
(* in every state they are determined by which events were applied (the     *)
(* pairs given to mark_favourite, the users given to mark_watcher), whatever *)
(* the order of the calls.                                                  *)
C19_OrderIndependent ==
    /\ {users[i].key : i \in DOMAIN users}
         = watched \cup {u \in UserIds : \E s \in SubmissionIds : observed[<<u, s>>] > 0}
    /\ {submissions[i].key : i \in DOMAIN submissions}
         = {s \in SubmissionIds : \E u \in UserIds : observed[<<u, s>>] > 0}
    /\ {<<f.user_id, f.submission_id>> : f \in favourites}
         = {p \in UserIds \X SubmissionIds : observed[p] > 0}
    /\ \A i \in DOMAIN users : users[i].value.is_watcher <=> users[i].key \in watched

(* a user whose favourite came before the watch, another whose watch came   *)
(* first would give the same picture                                        *)
C19_Witness ==
    /\ calls = 3
    /\ lastCall.op = "mark_watcher"
    /\ Len(users) = 2
    /\ users[1].key = lastCall.user_id
    /\ \E s \in SubmissionIds : observed[<<lastCall.user_id, s>>] = 1
    /\ watched = {lastCall.user_id}

(* the Site of this model under one of the names the store can load *)
ThisSite(name) ==
    [name |-> name, users |-> users, submissions |-> submissions, favourites |-> favourites]

(* C14: from_json(to_json(site)) has the same name, the same user_ids with  *)
(* equal name, is_watcher and watch_date, the same submission_ids with      *)
(* equal title and upload_date, and the same Favourite pairs with equal     *)
(* fav_date, absent dates staying absent.                                   *)
C14_RoundTrip ==
    \A name \in SiteNames :
       LET loaded == SiteFromJson(SiteClassLookup(name), SiteToJson(ThisSite(name)))
           back == loaded.site
       IN  /\ ~loaded.raised
           /\ back.name = name
           /\ {back.users[i].key : i \in DOMAIN back.users}
                = {users[i].key : i \in DOMAIN users}
           /\ \A i \in DOMAIN users :
                 \E j \in DOMAIN back.users :
                    /\ back.users[j].key = users[i].key
                    /\ back.users[j].value = users[i].value
           /\ {back.submissions[i].key : i \in DOMAIN back.submissions}
                = {submissions[i].key : i \in DOMAIN submissions}
           /\ \A i \in DOMAIN submissions :
                 \E j \in DOMAIN back.submissions :
                    /\ back.submissions[j].key = submissions[i].key
                    /\ back.submissions[j].value = submissions[i].value
           /\ Len(back.users) = Len(users)
           /\ Len(back.submissions) = Len(submissions)
           /\ back.favourites = favourites

(* a Site holding a user with a watch date and one without, a favourite     *)
(* with a date and one without                                              *)
C14_Witness ==
    /\ Len(users) = 2
    /\ \E i \in DOMAIN users : users[i].value.watch_date # None
    /\ \E i \in DOMAIN users : users[i].value.watch_date = None
    /\ \E f \in favourites : f.fav_date # None
    /\ \E f \in favourites : f.fav_date = None

(* C16: no page number is requested twice in a run; when the fetch of page  *)
(* k fails the failure leaves the paginator (nothing is returned as a       *)
(* result), page k is not requested again and no later page is requested.   *)
C16_FailurePropagates ==
    /\ \A i, j \in DOMAIN fetched : fetched[i] = fetched[j] => i = j
    /\ lastSummary.kind = "failed"
         => /\ pc = "raised"
            /\ result = <<>>
            /\ fetched = PagesUpTo(Len(fetched))
            /\ page = Len(fetched) + 1
    /\ pc = "raised" => lastSummary.kind = "failed"

(* the third fetch failed after two pages had given rows *)
C16_Witness ==
    /\ pc = "raised"
    /\ fetched = <<1, 2, 3>>
    /\ Len(notifications) = 4
    /\ result = <<>>

RECURSIVE EventsApplied(_, _)
EventsApplied(site, events) ==
    IF events = <<>> THEN site
    ELSE ApplyFeedEvent(EventsApplied(site, SubSeq(events, 1, Len(events) - 1)),
                        events[Len(events)])

(* C15: a failure of one site's update is caught for that site alone: every *)
(* later site is still taken up (its update is attempted unless the user    *)
(* leaves a cookie empty), no site's update is attempted twice, and a step  *)
(* of one site's update changes no other Site.                              *)
C15_FailureIsolated ==
    [][/\ \A i \in DOMAIN attempts' : attempts'[i] <= 1
       /\ \A i \in DOMAIN outcome' :
             /\ outcome'[i] = "failed" => (dpc' = "finished" \/ cur' > i)
             /\ outcome'[i] \in {"ok", "failed"} <=> (attempts'[i] = 1 /\ (cur' > i))
       /\ dpc' = "finished"
            => /\ cur' = Len(sites') + 1
               /\ \A i \in DOMAIN outcome' : outcome'[i] # "none"
       /\ dpc' = "prompt" => outcome'[cur'] = "none"
       /\ dpc = "update"
            => \A i \in DOMAIN sites : i # cur => sites'[i] = sites[i]]_vars

(* the first site's update failed after an event, the second site's update  *)
(* then ran and returned                                                    *)
C15_Witness ==
    /\ dpc = "finished"
    /\ outcome = <<"failed", "ok">>
    /\ attempts = <<1, 1>>
    /\ Len(sites[1].users) = 1
    /\ Len(sites[2].users) = 2

(* C20: when a site's update fails after n-1 raw events were handled, the   *)
(* Site is left as those n-1 events made it (nothing is rolled back), and   *)
(* that state is what the driver saves next.                                *)
C20_PartialUpdateKept ==
    (dpc \in {"prompt", "finished"} /\ cur > 1 /\ outcome[cur - 1] = "failed")
      => /\ sites[cur - 1] = EventsApplied(preSite, applied)
         /\ Len(saved) = Len(sites)
         /\ saved[cur - 1] = SiteToJson(EventsApplied(preSite, applied))
         /\ \A i \in DOMAIN sites : saved[i] = SiteToJson(sites[i])

(* the second site's update failed after its first event; the Site keeps    *)
(* the favourite of that event and the saved data shows it                  *)
C20_Witness ==
    /\ dpc = "finished"
    /\ outcome = <<"ok", "failed">>
    /\ Len(applied) = 1
    /\ preSite = NewSite("sofurry")
    /\ Cardinality(sites[2].favourites) = 1
    /\ Cardinality(saved[2].favourites) = 1
    /\ Len(saved[1].users) = 2

====
